---- MODULE Spec2Model ----
(***************************************************************************)
(* Definition revision resolver of pkg/oam/util/helper.go: namespace       *)
(* context, revision-name conversion, candidate listing, semantic-version  *)
(* selection, latest-revision lookup and the two-level namespaced fetch.   *)
(*                                                                         *)
(* Strings are sequences of one-character strings, so that prefix tests,   *)
(* splitting and version parsing are computed as the Go code computes      *)
(* them.                                                                   *)
(***************************************************************************)
EXTENDS Integers, Sequences, FiniteSets, TLC

VARIABLES store, pc, args, replies, stable, ret

vars == <<store, pc, args, replies, stable, ret>>

(***************************************************************************)
(* Bounds of the model.                                                    *)
(***************************************************************************)
\* longest candidate list handed to getMatchingDefinitionRevision
MaxCandidates == 3
\* most objects held by the store
MaxStore == 2

(***************************************************************************)
(* Go strings (package strings) on sequences of characters.                *)
(***************************************************************************)
\* the characters of the model in ASCII order
AsciiOrder ==
  <<"+", "-", ".", "/", "0", "1", "2", "3", "4", "5", "6", "7", "8", "9", "@",
    "A", "Z", "_", "a", "b", "c", "p", "r", "v", "w", "x", "z">>

Ord(c) == CHOOSE i \in 1..Len(AsciiOrder) : AsciiOrder[i] = c

DigitChars == {"0", "1", "2", "3", "4", "5", "6", "7", "8", "9"}
UpperChars == {"A", "Z"}
LowerChars == {"a", "b", "c", "p", "r", "v", "w", "x", "z"}
AlnumChars == DigitChars \cup UpperChars \cup LowerChars

DigitVal(c) == Ord(c) - Ord("0")

Drop(s, n) == SubSeq(s, n + 1, Len(s))
Take(s, n) == SubSeq(s, 1, n)

\* strings.HasPrefix
HasPrefix(s, p) == Len(p) <= Len(s) /\ Take(s, Len(p)) = p

\* strings.Index, 1-based; 0 when sep does not occur (sep is never empty here)
Index(s, sep) ==
  LET hits == {i \in 1..(Len(s) - Len(sep) + 1) : SubSeq(s, i, i + Len(sep) - 1) = sep}
  IN  IF hits = {} THEN 0 ELSE CHOOSE i \in hits : \A j \in hits : i <= j

\* strings.Contains
Contains(s, sep) == Index(s, sep) # 0

\* strings.Split for a non-empty separator
RECURSIVE Split(_, _)
Split(s, sep) ==
  LET i == Index(s, sep)
  IN  IF i = 0 THEN <<s>>
      ELSE <<Take(s, i - 1)>> \o Split(Drop(s, i - 1 + Len(sep)), sep)

\* strings.TrimPrefix
TrimPrefix(s, p) == IF HasPrefix(s, p) THEN Drop(s, Len(p)) ELSE s

\* Go's string comparison s > o (bytewise lexicographic)
RECURSIVE StrGreater(_, _)
StrGreater(s, o) ==
  IF s = <<>> THEN FALSE
  ELSE IF o = <<>> THEN TRUE
  ELSE IF Head(s) # Head(o) THEN Ord(Head(s)) > Ord(Head(o))
  ELSE StrGreater(Tail(s), Tail(o))

\* the longest prefix of s made of decimal digits
RECURSIVE TakeDigits(_)
TakeDigits(s) ==
  IF s # <<>> /\ Head(s) \in DigitChars THEN <<Head(s)>> \o TakeDigits(Tail(s))
  ELSE <<>>

\* the value of a non-empty digit string
RECURSIVE DigitsToInt(_)
DigitsToInt(d) ==
  IF d = <<>> THEN 0 ELSE 10 * DigitsToInt(Take(d, Len(d) - 1)) + DigitVal(d[Len(d)])

\* fmt %d of a natural number
RECURSIVE Itoa(_)
Itoa(n) ==
  IF n < 10 THEN <<AsciiOrder[Ord("0") + n]>>
  ELSE Itoa(n \div 10) \o <<AsciiOrder[Ord("0") + (n % 10)]>>

\* strconv.ParseUint(s, 10, 64) succeeds: at least one digit and digits only
\* (values beyond 64 bits are outside the model's inputs)
IsParseUint(s) == s # <<>> /\ TakeDigits(s) = s

(***************************************************************************)
(* github.com/Masterminds/semver (v1): NewVersion, String, Compare, as     *)
(* used by getMatchingDefinitionRevision.                                  *)
(***************************************************************************)
\* [0-9A-Za-z\-]+(\.[0-9A-Za-z\-]+)*
IsIdentList(s) ==
  /\ s # <<>>
  /\ \A i \in 1..Len(s) : s[i] \in AlnumChars \cup {"-", "."}
  /\ \A i \in 1..Len(Split(s, <<".">>)) : Split(s, <<".">>)[i] # <<>>

\* a parsed version; ok = FALSE stands for the (nil, ErrInvalidSemVer) result
Version(maj, min, pat, pre, meta) ==
  [ok |-> TRUE, major |-> DigitsToInt(maj), minor |-> DigitsToInt(min),
   patch |-> DigitsToInt(pat), pre |-> pre, meta |-> meta]
NilVersion ==
  [ok |-> FALSE, major |-> 0, minor |-> 0, patch |-> 0, pre |-> <<>>, meta |-> <<>>]

\* the text up to the first "+"
UpToPlus(s) == IF Index(s, <<"+">>) = 0 THEN s ELSE Take(s, Index(s, <<"+">>) - 1)

\* (\+meta)?$ on what is left
parseMeta(maj, min, pat, pre, r) ==
  IF r = <<>> THEN Version(maj, min, pat, pre, <<>>)
  ELSE IF Head(r) = "+" /\ IsIdentList(Tail(r)) THEN Version(maj, min, pat, pre, Tail(r))
  ELSE NilVersion

\* (-pre)? on what is left
parsePre(maj, min, pat, r) ==
  IF r # <<>> /\ Head(r) = "-"
  THEN IF IsIdentList(UpToPlus(Tail(r)))
       THEN parseMeta(maj, min, pat, UpToPlus(Tail(r)),
                      Drop(Tail(r), Len(UpToPlus(Tail(r)))))
       ELSE NilVersion
  ELSE parseMeta(maj, min, pat, <<>>, r)

\* (\.[0-9]+)? for the patch
parsePatch(maj, min, r) ==
  IF r # <<>> /\ Head(r) = "." /\ TakeDigits(Tail(r)) # <<>>
  THEN parsePre(maj, min, TakeDigits(Tail(r)), Drop(r, 1 + Len(TakeDigits(Tail(r)))))
  ELSE parsePre(maj, min, <<>>, r)

\* (\.[0-9]+)? for the minor
parseMinor(maj, r) ==
  IF r # <<>> /\ Head(r) = "." /\ TakeDigits(Tail(r)) # <<>>
  THEN parsePatch(maj, TakeDigits(Tail(r)), Drop(r, 1 + Len(TakeDigits(Tail(r)))))
  ELSE parsePre(maj, <<>>, <<>>, r)

\* ([0-9]+)
parseMajor(s) ==
  IF TakeDigits(s) = <<>> THEN NilVersion
  ELSE parseMinor(TakeDigits(s), Drop(s, Len(TakeDigits(s))))

\* semver.NewVersion: ^v?([0-9]+)(\.[0-9]+)?(\.[0-9]+)?(-pre)?(\+meta)?$
NewVersion(s) == parseMajor(IF s # <<>> /\ Head(s) = "v" THEN Tail(s) ELSE s)

\* Version.String: "%d.%d.%d", then "-pre" and "+meta" when present
String(v) ==
  Itoa(v.major) \o <<".">> \o Itoa(v.minor) \o <<".">> \o Itoa(v.patch)
    \o (IF v.pre # <<>> THEN <<"-">> \o v.pre ELSE <<>>)
    \o (IF v.meta # <<>> THEN <<"+">> \o v.meta ELSE <<>>)

compareSegment(a, b) == IF a < b THEN -1 ELSE IF a > b THEN 1 ELSE 0

comparePrePart(s, o) ==
  IF s = o THEN 0
  ELSE IF s = <<>> THEN -1
  ELSE IF o = <<>> THEN 1
  ELSE IF ~IsParseUint(o) /\ ~IsParseUint(s) THEN (IF StrGreater(s, o) THEN 1 ELSE -1)
  ELSE IF ~IsParseUint(o) THEN -1
  ELSE IF ~IsParseUint(s) THEN 1
  ELSE IF DigitsToInt(s) > DigitsToInt(o) THEN 1 ELSE -1

RECURSIVE comparePrereleaseFrom(_, _, _)
comparePrereleaseFrom(sparts, oparts, i) ==
  IF i > Len(sparts) /\ i > Len(oparts) THEN 0
  ELSE LET stemp == IF i <= Len(sparts) THEN sparts[i] ELSE <<>>
           otemp == IF i <= Len(oparts) THEN oparts[i] ELSE <<>>
           d     == comparePrePart(stemp, otemp)
       IN  IF d # 0 THEN d ELSE comparePrereleaseFrom(sparts, oparts, i + 1)

comparePrerelease(v, o) == comparePrereleaseFrom(Split(v, <<".">>), Split(o, <<".">>), 1)

\* Version.Compare: major, minor, patch, then pre-release precedence; the
\* build metadata is ignored
Compare(v, o) ==
  IF compareSegment(v.major, o.major) # 0 THEN compareSegment(v.major, o.major)
  ELSE IF compareSegment(v.minor, o.minor) # 0 THEN compareSegment(v.minor, o.minor)
  ELSE IF compareSegment(v.patch, o.patch) # 0 THEN compareSegment(v.patch, o.patch)
  ELSE IF v.pre = <<>> /\ o.pre = <<>> THEN 0
  ELSE IF v.pre = <<>> THEN 1
  ELSE IF o.pre = <<>> THEN -1
  ELSE comparePrerelease(v.pre, o.pre)

\* semver.Collection.Less: c[i].LessThan(c[j])
Less(vs, i, j) == Compare(vs[i], vs[j]) < 0

\* the inner loop of insertionSort of package sort: the element at j moves
\* down while it is less than the one before it
RECURSIVE insertDown(_, _)
insertDown(vs, j) ==
  IF j > 1 /\ Less(vs, j, j - 1)
  THEN insertDown([vs EXCEPT ![j] = vs[j - 1], ![j - 1] = vs[j]], j - 1)
  ELSE vs

\* insertionSort of package sort from element i on, which is what sort.Sort
\* does to a list as short as the ones of the model
RECURSIVE insertionSort(_, _)
insertionSort(vs, i) ==
  IF i > Len(vs) THEN vs ELSE insertionSort(insertDown(vs, i), i + 1)

\* sort.Sort(semver.Collection(vs)) followed by vs[len(vs)-1].  The sort is
\* run as the code runs it: Compare is no total order (of two pre-releases
\* with the same number written differently, each is less than the other),
\* and the element left last then depends on the order of the input.
SortedLast(vs) == insertionSort(vs, 2)[Len(vs)]

(***************************************************************************)
(* The version selector.                                                   *)
(***************************************************************************)
\* a Go map as a function; a later put overwrites an earlier one
EmptyMap == <<>>
MapPut(m, k, v) == (k :> v) @@ m

\* results of a call: a normal return of (name, err), or a run-time panic
Return(name, err) == [status |-> "return", name |-> name, err |-> err]
Panic(why) == [status |-> "panic", name |-> <<>>, err |-> why]

\* the loop of getMatchingDefinitionRevision from item i on, then lines 361-366
RECURSIVE matchFrom(_, _, _, _, _, _, _)
matchFrom(exactRevisionName, definitionName, items, definitionType, i, definitionVersions, orignalVersions) ==
  IF i > Len(items)
  THEN IF Len(definitionVersions) = 0
       THEN Return(<<>>, "nil")
       ELSE Return(definitionName \o <<"-">>
                     \o orignalVersions[String(SortedLast(definitionVersions))], "nil")
  ELSE LET revision == items[i]
           next(vs, m) == matchFrom(exactRevisionName, definitionName, items,
                                    definitionType, i + 1, vs, m)
       IN  IF definitionType # "" /\ definitionType # revision.defType
           THEN next(definitionVersions, orignalVersions)
           ELSE IF revision.name = exactRevisionName
           THEN Return(exactRevisionName, "nil")
           ELSE IF HasPrefix(revision.name, exactRevisionName \o <<".">>)
           THEN LET parts == Split(revision.name, definitionName \o <<"-">>)
                IN  IF Len(parts) < 2
                    THEN Panic("index out of range")
                    ELSE LET version == parts[2]
                             v == NewVersion(version)
                         IN  \* line 354 calls v.String() before err is looked at,
                             \* and NewVersion returns a nil version with every error
                             IF ~v.ok
                             THEN Panic("nil pointer dereference")
                             ELSE next(Append(definitionVersions, v),
                                       MapPut(orignalVersions, String(v), version))
           ELSE next(definitionVersions, orignalVersions)

getMatchingDefinitionRevision(exactRevisionName, definitionName, items, definitionType) ==
  matchFrom(exactRevisionName, definitionName, items, definitionType, 1,
            <<>>, EmptyMap)

(***************************************************************************)
(* k8s.io/apimachinery validation.IsQualifiedName, and the conversion of a *)
(* reference to a revision name.                                           *)
(***************************************************************************)
\* longest name part of a qualified name
qualifiedNameMaxLength == 63
\* longest DNS-1123 subdomain
DNS1123SubdomainMaxLength == 253

\* [a-z0-9]([-a-z0-9]*[a-z0-9])?
IsDNS1123Label(s) ==
  /\ s # <<>>
  /\ \A i \in 1..Len(s) : s[i] \in LowerChars \cup DigitChars \cup {"-"}
  /\ s[1] # "-"
  /\ s[Len(s)] # "-"

\* validation.IsDNS1123Subdomain reports no error
IsDNS1123Subdomain(s) ==
  /\ Len(s) <= DNS1123SubdomainMaxLength
  /\ \A i \in 1..Len(Split(s, <<".">>)) : IsDNS1123Label(Split(s, <<".">>)[i])

\* ([A-Za-z0-9][-A-Za-z0-9_.]*)?[A-Za-z0-9]
MatchesQualifiedNameFmt(s) ==
  /\ s # <<>>
  /\ \A i \in 1..Len(s) : s[i] \in AlnumChars \cup {"-", "_", "."}
  /\ s[1] \in AlnumChars
  /\ s[Len(s)] \in AlnumChars

\* validation.IsQualifiedName(value) returns no error message
IsQualifiedName(value) ==
  LET parts == Split(value, <<"/">>)
      name  == IF Len(parts) = 1 THEN parts[1] ELSE parts[2]
  IN  /\ Len(parts) <= 2
      /\ (Len(parts) = 2 => (parts[1] # <<>> /\ IsDNS1123Subdomain(parts[1])))
      /\ name # <<>>
      /\ Len(name) <= qualifiedNameMaxLength
      /\ MatchesQualifiedNameFmt(name)

\* the mutant of ConvertDefinitionRevName that forgets the "v" of the revision name
ConvertDefinitionRevName_NoV(definitionName) ==
  LET splits == Split(definitionName, <<"@", "v">>)
  IN  IF Len(splits) = 1 \/ Len(splits[1]) = 0
      THEN Return(definitionName,
                  IF IsQualifiedName(definitionName) THEN "nil" ELSE "InvalidName")
      ELSE LET defName      == splits[1]
               revisionName == TrimPrefix(definitionName, defName \o <<"@", "v">>)
               defRevName   == defName \o <<"-">> \o revisionName
           IN  Return(defRevName,
                      IF IsQualifiedName(defRevName) THEN "nil" ELSE "InvalidName")

\* ConvertDefinitionRevName: worker@v1.3.1 becomes worker-v1.3.1; the name is
\* returned with the error too
ConvertDefinitionRevName(definitionName) ==
  LET splits == Split(definitionName, <<"@", "v">>)
  IN  IF Len(splits) = 1 \/ Len(splits[1]) = 0
      THEN Return(definitionName,
                  IF IsQualifiedName(definitionName) THEN "nil" ELSE "InvalidName")
      ELSE LET defName      == splits[1]
               revisionName == TrimPrefix(definitionName, defName \o <<"@", "v">>)
               defRevName   == defName \o <<"-", "v">> \o revisionName
           IN  Return(defRevName,
                      IF IsQualifiedName(defRevName) THEN "nil" ELSE "InvalidName")

\* the reverse mapping of a revision name: cut at the last "-" that is followed
\* by "v" and a valid semantic version
RevisionNameParts(rev) ==
  LET cuts == {i \in 1..(Len(rev) - 1) :
                 rev[i] = "-" /\ rev[i + 1] = "v" /\ NewVersion(Drop(rev, i)).ok}
      last == CHOOSE i \in cuts : \A j \in cuts : j <= i
  IN  IF cuts = {} THEN [ok |-> FALSE, name |-> <<>>, version |-> <<>>]
      ELSE [ok |-> TRUE, name |-> Take(rev, last - 1), version |-> Drop(rev, last + 1)]

(***************************************************************************)
(* Inputs of the selector: revision names, candidate lists.                *)
(***************************************************************************)
\* common.ComponentType, TraitType, PolicyType, WorkflowStepType
ComponentType == "Component"
TraitType == "Trait"
PolicyType == "Policy"
WorkflowStepType == "WorkflowStep"
DefinitionTypes == {ComponentType, TraitType, PolicyType, WorkflowStepType}

App == <<"a", "p", "p">>
AppV1 == App \o <<"-", "v", "1">>
AppV1_0_0 == AppV1 \o <<".", "0", ".", "0">>
AppV1_0_0_1 == AppV1_0_0 \o <<"-", "1">>
AppV1_0_0_01 == AppV1_0_0 \o <<"-", "0", "1">>
AppV1_2 == AppV1 \o <<".", "2">>
AppV1_2_0 == AppV1 \o <<".", "2", ".", "0">>
AppV1_2_0rc == AppV1 \o <<".", "2", ".", "0", "-", "r", "c">>
AppV1_10_0 == AppV1 \o <<".", "1", "0", ".", "0">>
AppV1_x == AppV1 \o <<".", "x">>
A == <<"a">>
AV1 == <<"a", "-", "v", "1">>
AV1_2_3rca1 == AV1 \o <<".", "2", ".", "3", "-", "r", "c", "a", "-", "1">>

Rev(name, defType) == [name |-> name, defType |-> defType]

Candidates ==
  {Rev(AppV1, ComponentType), Rev(AppV1_0_0, ComponentType),
   Rev(AppV1_2, ComponentType), Rev(AppV1_2_0, ComponentType),
   Rev(AppV1_2_0rc, ComponentType), Rev(AppV1_10_0, ComponentType),
   Rev(AppV1_x, ComponentType), Rev(AV1_2_3rca1, ComponentType),
   Rev(AppV1_10_0, TraitType), Rev(AppV1, TraitType),
   Rev(AppV1_0_0_1, ComponentType), Rev(AppV1_0_0_01, ComponentType)}

\* lists of candidates with pairwise distinct names, as one namespace holds them
RECURSIVE ListsUpTo(_)
ListsUpTo(n) ==
  IF n = 0 THEN {<<>>}
  ELSE ListsUpTo(n - 1) \cup
       {Append(l, c) : l \in {x \in ListsUpTo(n - 1) : Len(x) = n - 1}, c \in Candidates}

DistinctNames(l) == \A i, j \in 1..Len(l) : i # j => l[i].name # l[j].name

CandidateLists == {l \in ListsUpTo(MaxCandidates) : DistinctNames(l)}

\* the token is the revision name of a reference to the base name, as
\* fetchDefinitionRevision passes them (defRevName and defName of one reference)
SelectArgs ==
  {a \in [op : {"select"}, exact : {AppV1, AppV1_2, AV1}, base : {App, A},
          items : CandidateLists, kind : {ComponentType, TraitType, ""}] :
     HasPrefix(a.exact, a.base \o <<"-">>)}

NoRet == [status |-> "none"]

InitSelect ==
  /\ store = {}
  /\ pc = "call"
  /\ args \in SelectArgs
  /\ replies = <<>>
  /\ stable = TRUE
  /\ ret = NoRet

Select ==
  /\ pc = "call"
  /\ args.op = "select"
  /\ ret' = getMatchingDefinitionRevision(args.exact, args.base, args.items, args.kind)
  /\ pc' = "done"
  /\ UNCHANGED <<store, args, replies, stable>>

NextSelect == Select

SpecSelect == InitSelect /\ [][NextSelect]_vars

(***************************************************************************)
(* The namespace context.                                                  *)
(***************************************************************************)
\* oam.SystemDefinitionNamespace and types.DefaultAppNamespace
SystemDefinitionNamespace == "vela-system"
DefaultAppNamespace == "default"
\* the empty namespace of a cluster-scoped request
NoNamespace == ""

\* a context holds at most one value per key: <<>> (no value) or <<value>>
Background == [app |-> <<>>, x |-> <<>>]

GetDefinitionNamespaceWithCtx(ctx) ==
  IF ctx.app = <<>> THEN SystemDefinitionNamespace ELSE ctx.app[1]

GetXDefinitionNamespaceWithCtx(ctx) ==
  IF ctx.x # <<>> /\ ctx.x[1] # "" THEN ctx.x[1] ELSE SystemDefinitionNamespace

SetNamespaceInCtx(ctx, namespace) ==
  [ctx EXCEPT !.app = <<IF namespace = "" THEN DefaultAppNamespace ELSE namespace>>]

SetXDefinitionNamespaceInCtx(ctx, namespace) ==
  [ctx EXCEPT !.x = <<IF namespace = "" THEN SystemDefinitionNamespace ELSE namespace>>]

(***************************************************************************)
(* The resource store behind client.Reader.                                *)
(*                                                                         *)
(* Every cli.Get and cli.List is a blocking call of its own: the store     *)
(* answers it from the content it has at that moment, and other processes  *)
(* may create and delete objects between two calls of one operation.  An   *)
(* environment env of an operation therefore holds the replies the store   *)
(* has given to its calls so far, in the order of the calls, and whether   *)
(* the reader handed in is a client.Client.                                *)
(***************************************************************************)
NoErr == [kind |-> "nil", call |-> 0]
\* an error made by the call-th store call of the operation
Err(kind, call) == [kind |-> kind, call |-> call]

\* apierrors.IsNotFound
IsNotFound(err) == err.kind = "NotFound"

\* checkRequestNamespaceError: the message "an empty namespace may not be set
\* when a resource name is provided"
checkRequestNamespaceError(err) == err.kind # "nil" /\ err.kind = "EmptyNamespace"

\* the resources of the store: revisions, and the live definition of each
\* kind (the Go type of the object the caller passes)
RevisionResource == "DefinitionRevision"
DefinitionResource(definitionType) ==
  IF definitionType = ComponentType THEN "ComponentDefinition"
  ELSE IF definitionType = TraitType THEN "TraitDefinition"
  ELSE IF definitionType = PolicyType THEN "PolicyDefinition"
  ELSE IF definitionType = WorkflowStepType THEN "WorkflowStepDefinition"
  ELSE "WorkloadDefinition"

NoObject ==
  [resource |-> "", namespace |-> "", name |-> <<>>, defType |-> "", defName |-> <<>>]

GetCall(resource, ns, name) ==
  [api |-> "get", resource |-> resource, namespace |-> ns, name |-> name, kind |-> ""]
ListCall(ns, kind, name) ==
  [api |-> "list", resource |-> RevisionResource, namespace |-> ns, name |-> name,
   kind |-> kind]

\* DefinitionKindToNameLabel: the label a revision of each kind carries; a
\* kind outside the map selects the empty label key, which no object carries
DefinitionKindToNameLabel(definitionType) ==
  IF definitionType = ComponentType THEN "oam.LabelComponentDefinitionName"
  ELSE IF definitionType = TraitType THEN "oam.LabelTraitDefinitionName"
  ELSE IF definitionType = PolicyType THEN "oam.LabelPolicyDefinitionName"
  ELSE IF definitionType = WorkflowStepType THEN "oam.LabelWorkflowStepDefinitionName"
  ELSE ""

\* the reply of the store to a get, the k-th store call of the operation,
\* from the content st it has at that moment: an error of its own
\* (permission, transport) when fail, the rejection of a request without
\* namespace when the resource is namespaced, not-found, or the object
StoreGet(st, namespaced, fail, k, resource, ns, name) ==
  LET found == {o \in st : o.resource = resource /\ o.namespace = ns /\ o.name = name}
  IN  IF fail
      THEN [err |-> Err("Other", k), obj |-> NoObject]
      ELSE IF ns = NoNamespace /\ namespaced
      THEN [err |-> Err("EmptyNamespace", k), obj |-> NoObject]
      ELSE IF found = {}
      THEN [err |-> Err("NotFound", k), obj |-> NoObject]
      ELSE [err |-> NoErr, obj |-> CHOOSE o \in found : TRUE]

\* the reply of the store to a list in a namespace with a label selector, the
\* k-th store call of the operation; listed is the order in which the store
\* goes through the revisions of the namespace at that moment
StoreList(listed, fail, k, labelKey, labelValue) ==
  IF fail
  THEN [err |-> Err("Other", k), items |-> <<>>]
  ELSE LET match(o) == /\ o.resource = RevisionResource
                       /\ labelKey # ""
                       /\ DefinitionKindToNameLabel(o.defType) = labelKey
                       /\ o.defName = labelValue
       IN  [err |-> NoErr, items |-> SelectSeq(listed, match)]

\* cli.Get as the (n+1)-th store call of the operation: the reply the store
\* gave to it.  A call the store has not answered yet stands as not-found;
\* an operation is over only when every call it makes has its reply.
ClientGet(env, n, resource, ns, name) ==
  IF n < Len(env.replies)
  THEN env.replies[n + 1]
  ELSE [err |-> Err("NotFound", n + 1), obj |-> NoObject]

\* cli.List in a namespace with a label selector, as the (n+1)-th store call
ClientList(env, n, ns, labelKey, labelValue) ==
  IF n < Len(env.replies)
  THEN env.replies[n + 1]
  ELSE [err |-> NoErr, items |-> <<>>]

(***************************************************************************)
(* The two-level namespaced fetch.                                         *)
(***************************************************************************)
Fetched(err, obj, calls) == [err |-> err, obj |-> obj, calls |-> calls]

\* the mutant of the retry that lets the namespaced not-found error stand for
\* every error of the retry, not only for the empty-namespace rejection
fromNamespaceRetry_SuppressAll(first, retry, calls) ==
  IF retry.err.kind # "nil"
  THEN Fetched(first.err, NoObject, calls)
  ELSE Fetched(retry.err, retry.obj, calls)

\* the mutant of the retry that returns the result of the retry always, the
\* empty-namespace rejection included
fromNamespaceRetry_NoSuppress(first, retry, calls) ==
  Fetched(retry.err, retry.obj, calls)

\* lines 216-219: the retry without a namespace after the not-found error first
fromNamespaceRetry(first, retry, calls) ==
  IF checkRequestNamespaceError(retry.err)
  THEN Fetched(first.err, NoObject, calls)
  ELSE Fetched(retry.err, retry.obj, calls)

\* lines 212-223, first being the result of the namespaced get
fromNamespaceFirst(env, n, resource, definitionName, namespace, first) ==
  IF first.err.kind = "nil"
  THEN Fetched(NoErr, first.obj, <<GetCall(resource, namespace, definitionName)>>)
  ELSE IF IsNotFound(first.err)
  THEN fromNamespaceRetry(first,
                          ClientGet(env, n + 1, resource, NoNamespace, definitionName),
                          <<GetCall(resource, namespace, definitionName),
                            GetCall(resource, NoNamespace, definitionName)>>)
  ELSE Fetched(first.err, NoObject, <<GetCall(resource, namespace, definitionName)>>)

\* GetDefinitionFromNamespace, its first store call being the (n+1)-th
GetDefinitionFromNamespace(env, n, resource, definitionName, namespace) ==
  fromNamespaceFirst(env, n, resource, definitionName, namespace,
                     ClientGet(env, n, resource, namespace, definitionName))

\* the loop of GetDefinition over the namespaces nss from position i on; err
\* is the error of the attempt before, r the result of the attempt at i
RECURSIVE getDefinitionLoop(_, _, _, _, _, _, _, _)
getDefinitionStep(env, n, resource, definitionName, nss, i, calls, r) ==
  IF ~IsNotFound(r.err)
  THEN Fetched(r.err, r.obj, calls \o r.calls)
  ELSE getDefinitionLoop(env, n + Len(r.calls), resource, definitionName, nss, i + 1,
                         r.err, calls \o r.calls)

getDefinitionLoop(env, n, resource, definitionName, nss, i, err, calls) ==
  IF i > Len(nss) THEN Fetched(err, NoObject, calls)
  ELSE getDefinitionStep(env, n, resource, definitionName, nss, i, calls,
                         GetDefinitionFromNamespace(env, n, resource, definitionName,
                                                    nss[i]))

\* lines 193-207, first being the result of the get in the application namespace
getDefinitionFirst(env, ctx, n, resource, definitionName, first, nss) ==
  IF first.err.kind = "nil"
  THEN Fetched(NoErr, first.obj,
               <<GetCall(resource, GetDefinitionNamespaceWithCtx(ctx), definitionName)>>)
  ELSE IF ~IsNotFound(first.err)
  THEN Fetched(first.err, NoObject,
               <<GetCall(resource, GetDefinitionNamespaceWithCtx(ctx), definitionName)>>)
  ELSE getDefinitionLoop(env, n + 1, resource, definitionName, nss, 1, first.err,
                         <<GetCall(resource, GetDefinitionNamespaceWithCtx(ctx),
                                   definitionName)>>)

\* the mutant of GetDefinition that returns the error of the first lookup when
\* every attempt ends in not-found
GetDefinition_FirstError(env, ctx, n, resource, definitionName) ==
  LET first == ClientGet(env, n, resource, GetDefinitionNamespaceWithCtx(ctx),
                         definitionName)
      r     == getDefinitionFirst(env, ctx, n, resource, definitionName, first,
                                  <<GetXDefinitionNamespaceWithCtx(ctx),
                                    SystemDefinitionNamespace>>)
  IN  IF IsNotFound(r.err) THEN Fetched(first.err, NoObject, r.calls) ELSE r

\* the mutant of GetDefinition that tries the system namespace before the
\* x-definition namespace
GetDefinition_SystemFirst(env, ctx, n, resource, definitionName) ==
  getDefinitionFirst(env, ctx, n, resource, definitionName,
                     ClientGet(env, n, resource, GetDefinitionNamespaceWithCtx(ctx),
                               definitionName),
                     <<SystemDefinitionNamespace, GetXDefinitionNamespaceWithCtx(ctx)>>)

\* GetDefinition: the application namespace, then the x-definition namespace
\* and the system namespace
GetDefinition(env, ctx, n, resource, definitionName) ==
  getDefinitionFirst(env, ctx, n, resource, definitionName,
                     ClientGet(env, n, resource, GetDefinitionNamespaceWithCtx(ctx),
                               definitionName),
                     <<GetXDefinitionNamespaceWithCtx(ctx), SystemDefinitionNamespace>>)

(***************************************************************************)
(* The latest-revision lookup and the resolver.                            *)
(***************************************************************************)
\* fetchAllRevisionsForDefinitionName: the list call and the call it records
fetchAllRevisionsForDefinitionName(env, n, ns, definitionName, definitionType) ==
  ClientList(env, n, ns, DefinitionKindToNameLabel(definitionType), definitionName)

Latest(status, name, err, calls) ==
  [status |-> status, name |-> name, err |-> err, calls |-> calls]

\* fmt.Errorf("error finding definition revision for Name: %v, Type: %v", ...)
FindRevisionError(definitionName, definitionType) ==
  [kind |-> "FindRevision", call |-> 0, name |-> definitionName, type |-> definitionType]

\* the loop of GetLatestDefinitionRevisionName over nss from position i on;
\* latestStep is the body of the loop after the list call l and the selection m
RECURSIVE latestLoop(_, _, _, _, _, _, _, _)
latestStep(env, n, definitionName, revisionName, definitionType, nss, i, cs, l, m) ==
  IF l.err.kind # "nil" THEN Latest("return", <<>>, l.err, cs)
  ELSE IF m.status = "panic" THEN Latest("panic", <<>>, Err(m.err, 0), cs)
  ELSE IF m.err = "nil" /\ m.name # <<>> THEN Latest("return", m.name, NoErr, cs)
  ELSE latestLoop(env, n + 1, definitionName, revisionName, definitionType,
                  nss, i + 1, cs)

latestSelect(env, n, definitionName, revisionName, definitionType, nss, i, cs, l) ==
  latestStep(env, n, definitionName, revisionName, definitionType, nss, i, cs, l,
             getMatchingDefinitionRevision(revisionName, definitionName, l.items,
                                           definitionType))

latestLoop(env, n, definitionName, revisionName, definitionType, nss, i, calls) ==
  IF i > Len(nss)
  THEN Latest("return", <<>>, FindRevisionError(definitionName, definitionType), calls)
  ELSE latestSelect(env, n, definitionName, revisionName, definitionType, nss, i,
                    calls \o <<ListCall(nss[i], definitionType, definitionName)>>,
                    fetchAllRevisionsForDefinitionName(env, n, nss[i], definitionName,
                                                       definitionType))

\* the mutant of GetLatestDefinitionRevisionName that searches the system
\* namespace before the application namespace
GetLatestDefinitionRevisionName_SystemFirst(env, ctx, n, definitionName, revisionName, definitionType) ==
  latestLoop(env, n, definitionName, revisionName, definitionType,
             <<SystemDefinitionNamespace, GetDefinitionNamespaceWithCtx(ctx)>>, 1, <<>>)

GetLatestDefinitionRevisionName(env, ctx, n, definitionName, revisionName, definitionType) ==
  latestLoop(env, n, definitionName, revisionName, definitionType,
             <<GetDefinitionNamespaceWithCtx(ctx), SystemDefinitionNamespace>>, 1, <<>>)

\* oam.AnnotationAutoUpdate
AnnotationAutoUpdate == "app.oam.dev/autoUpdate"

Resolved(status, isLatestRevision, defRev, err, calls) ==
  [status |-> status, isLatestRevision |-> isLatestRevision, defRev |-> defRev,
   err |-> err, calls |-> calls]

\* lines 293-298: the fetch of the revision named by the lookup
fetchNamed(latest, got) ==
  IF got.err.kind # "nil"
  THEN Resolved("return", FALSE, NoObject, got.err, latest.calls \o got.calls)
  ELSE Resolved("return", FALSE, got.obj, NoErr, latest.calls \o got.calls)

\* lines 287-294, latest being the revision name to fetch
fetchLatest(env, ctx, latest) ==
  IF latest.status = "panic"
  THEN Resolved("panic", FALSE, NoObject, latest.err, latest.calls)
  ELSE IF latest.err.kind # "nil"
  THEN Resolved("return", FALSE, NoObject, latest.err, latest.calls)
  ELSE fetchNamed(latest, GetDefinition(env, ctx, Len(latest.calls), RevisionResource,
                                        latest.name))

\* lines 279-291, conv being the result of ConvertDefinitionRevName.  The
\* type assertion cli.(client.Client) of line 286 is evaluated before the
\* lookup is called and panics when the reader is not a client.Client.
fetchConverted(env, ctx, definitionName, definitionType, annotations, conv) ==
  IF conv.err # "nil"
  THEN Resolved("return", FALSE, NoObject, Err(conv.err, 0), <<>>)
  ELSE IF /\ AnnotationAutoUpdate \in DOMAIN annotations
          /\ annotations[AnnotationAutoUpdate] = "true"
  THEN IF ~env.isClient
       THEN Resolved("panic", FALSE, NoObject, Err("interface conversion", 0), <<>>)
       ELSE fetchLatest(env, ctx,
                        GetLatestDefinitionRevisionName(env, ctx, 0,
                                                        Split(definitionName, <<"@">>)[1],
                                                        conv.name, definitionType))
  ELSE fetchLatest(env, ctx, Latest("return", conv.name, NoErr, <<>>))

\* the mutant of the resolver that converts and looks up every reference,
\* with or without '@'
fetchDefinitionRevision_NoLiveCheck(env, ctx, definitionName, definitionType, annotations) ==
  fetchConverted(env, ctx, definitionName, definitionType, annotations,
                 ConvertDefinitionRevName(definitionName))

\* fetchDefinitionRevision: (isLatestRevision, defRev, err)
fetchDefinitionRevision(env, ctx, definitionName, definitionType, annotations) ==
  IF ~Contains(definitionName, <<"@">>)
  THEN Resolved("return", TRUE, NoObject, NoErr, <<>>)
  ELSE fetchConverted(env, ctx, definitionName, definitionType, annotations,
                      ConvertDefinitionRevName(definitionName))

(***************************************************************************)
(* GetCapabilityDefinition, the exported entry to the resolver.  The       *)
(* definition argument is modelled by the resource of the object passed.   *)
(***************************************************************************)
\* getDefinitionType: the kind of the definition object passed by the
\* caller, an error for an object of any other type
getDefinitionType(definition) ==
  IF definition = "ComponentDefinition"
  THEN [type |-> ComponentType, err |-> "nil"]
  ELSE IF definition = "TraitDefinition"
  THEN [type |-> TraitType, err |-> "nil"]
  ELSE IF definition = "PolicyDefinition"
  THEN [type |-> PolicyType, err |-> "nil"]
  ELSE IF definition = "WorkflowStepDefinition"
  THEN [type |-> WorkflowStepType, err |-> "nil"]
  ELSE [type |-> "", err |-> "InvalidType"]

\* lines 241-251: the definition of the caller's type embedded in the
\* revision, defRev.Spec.<Kind>Definition; it is the zero value when the
\* revision carries a definition of another kind, and an object of a type
\* outside the switch is left as it was passed
SpecDefinition(defRev, definition) ==
  LET embedded(t) ==
        IF defRev.defType = t
        THEN [resource |-> definition, namespace |-> defRev.namespace,
              name |-> defRev.defName, defType |-> defRev.defType,
              defName |-> defRev.defName]
        ELSE NoObject
  IN  IF definition = "ComponentDefinition" THEN embedded(ComponentType)
      ELSE IF definition = "TraitDefinition" THEN embedded(TraitType)
      ELSE IF definition = "PolicyDefinition" THEN embedded(PolicyType)
      ELSE IF definition = "WorkflowStepDefinition" THEN embedded(WorkflowStepType)
      ELSE NoObject

Capability(status, err, def, resolved, calls) ==
  [status |-> status, err |-> err, def |-> def, resolved |-> resolved, calls |-> calls]

\* line 239: the live definition under the reference itself
capabilityLive(r, got) ==
  Capability("return", got.err, got.obj, r, r.calls \o got.calls)

\* lines 234-252, r being the result of fetchDefinitionRevision
capabilityResolved(env, ctx, definition, definitionName, r) ==
  IF r.status = "panic" THEN Capability("panic", r.err, NoObject, r, r.calls)
  ELSE IF r.err.kind # "nil" THEN Capability("return", r.err, NoObject, r, r.calls)
  ELSE IF r.isLatestRevision
  THEN capabilityLive(r, GetDefinition(env, ctx, Len(r.calls), definition,
                                       definitionName))
  ELSE Capability("return", NoErr, SpecDefinition(r.defRev, definition), r, r.calls)

\* lines 229-233, t being the result of getDefinitionType
capabilityTyped(env, ctx, definition, definitionName, annotations, t) ==
  IF t.err # "nil"
  THEN Capability("return", Err(t.err, 0), NoObject,
                  Resolved("none", FALSE, NoObject, NoErr, <<>>), <<>>)
  ELSE capabilityResolved(env, ctx, definition, definitionName,
                          fetchDefinitionRevision(env, ctx, definitionName, t.type,
                                                  annotations))

GetCapabilityDefinition(env, ctx, definition, definitionName, annotations) ==
  capabilityTyped(env, ctx, definition, definitionName, annotations,
                  getDefinitionType(definition))

(***************************************************************************)
(* The resolver against a store: state, operations, specification.         *)
(***************************************************************************)
\* the reference name@v<version>
Reference(name, version) == name \o <<"@", "v">> \o version

AppV1_2_3 == AppV1_2 \o <<".", "3">>
AppV1_2_5 == AppV1_2 \o <<".", "5">>
AppV1_2_x == AppV1_2 \o <<".", "x">>

Prod == "prod"
Addons == "addons"
ListedNamespaces == {Prod, Addons, SystemDefinitionNamespace}

\* a revision of definition app
Object(ns, name, defType) ==
  [resource |-> RevisionResource, namespace |-> ns, name |-> name,
   defType |-> defType, defName |-> App]

\* the live definition app of a kind
Definition(ns, defType) ==
  [resource |-> DefinitionResource(defType), namespace |-> ns, name |-> App,
   defType |-> defType, defName |-> App]

\* the objects other processes may store: two versions of component app in
\* the application and the system namespace, one in the x-definition
\* namespace and one cluster-scoped, a malformed revision name in the system
\* namespace, a trait revision named as a component revision, and the live
\* component definition
ObjectPool ==
  {Object(ns, n, ComponentType) :
     ns \in {Prod, SystemDefinitionNamespace}, n \in {AppV1_2_3, AppV1_2_5}}
  \cup {Object(ns, AppV1_2_3, ComponentType) : ns \in {Addons, NoNamespace}}
  \cup {Object(SystemDefinitionNamespace, AppV1_2_x, ComponentType),
        Object(Prod, AppV1_2_5, TraitType),
        Definition(SystemDefinitionNamespace, ComponentType)}

\* the contexts of a call, built by the setters
Contexts ==
  {Background,
   SetNamespaceInCtx(Background, Prod),
   SetXDefinitionNamespaceInCtx(SetNamespaceInCtx(Background, Prod), Addons)}

\* every order in which the objects of a set may be listed
Orders(S) ==
  {q \in [1..Cardinality(S) -> S] : \A i, j \in 1..Cardinality(S) : i # j => q[i] # q[j]}

\* the revisions of a namespace
InNamespace(st, ns) == {o \in st : o.resource = RevisionResource /\ o.namespace = ns}

Env(rs, isClient) == [replies |-> rs, isClient |-> isClient]

RefApp == App
RefNoName == <<"-", "a">>
RefPinned == Reference(App, <<"1", ".", "2", ".", "3">>)
RefPartial == Reference(App, <<"1", ".", "2">>)
RefInvalid == Reference(App, <<"1", ".", "_">>)
References == {RefApp, RefNoName, RefPinned, RefPartial, RefInvalid}

AnnotationSets ==
  {EmptyMap, AnnotationAutoUpdate :> "true", AnnotationAutoUpdate :> "false"}

\* the definition objects a caller passes: of the four kinds of the type
\* switch, and of a type outside it
CalledDefinitions ==
  {"ComponentDefinition", "TraitDefinition", "PolicyDefinition",
   "WorkflowStepDefinition", "WorkloadDefinition"}

\* lines 274-286: whether a resolution of the reference reaches the
\* latest-revision lookup, and with it the type assertion on the reader: the
\* reference has an '@', its conversion gives no error, and the annotation
\* is "true"
Lists(ref, ann) ==
  /\ Contains(ref, <<"@">>)
  /\ ConvertDefinitionRevName(ref).err = "nil"
  /\ AnnotationAutoUpdate \in DOMAIN ann
  /\ ann[AnnotationAutoUpdate] = "true"

\* the calls of GetCapabilityDefinition.  An argument the call does not get
\* to read takes one value: the reader is no client.Client only where the
\* resolution asserts its type, and an object of a type outside the switch
\* comes with one context and no annotations.  The policy and workflow-step
\* definitions, the annotation value "false", the reference without a name
\* and the store that serves requests without a namespace come with one
\* choice of the other arguments each.
ResolveInputs ==
  {a \in [ctx : Contexts, ref : References, definition : CalledDefinitions,
          annotations : AnnotationSets, namespaced : BOOLEAN, isClient : BOOLEAN] :
     /\ ~a.isClient => Lists(a.ref, a.annotations)
     /\ getDefinitionType(a.definition).err # "nil" =>
          /\ a.ctx = Background
          /\ a.annotations = EmptyMap
          /\ a.namespaced
     /\ a.definition \in {"PolicyDefinition", "WorkflowStepDefinition"} =>
          /\ a.ctx = SetNamespaceInCtx(Background, Prod)
          /\ a.annotations = (AnnotationAutoUpdate :> "true")
          /\ a.isClient
     /\ a.annotations = (AnnotationAutoUpdate :> "false") =>
          /\ a.ctx = SetNamespaceInCtx(Background, Prod)
          /\ a.ref = RefPinned
     /\ a.ref = RefNoName =>
          /\ a.ctx = SetNamespaceInCtx(Background, Prod)
          /\ a.annotations = EmptyMap
     /\ ~a.namespaced =>
          /\ a.ref = RefPinned
          /\ a.annotations = EmptyMap}

NoArgs == [op |-> "none"]

Init ==
  /\ store = {}
  /\ pc = "idle"
  /\ args = NoArgs
  /\ replies = <<>>
  /\ stable = TRUE
  /\ ret = NoRet

\* another process stores an object, between two operations or between two
\* store calls of the operation under way; names are unique in a namespace
CreateObject ==
  /\ pc \in {"idle", "running"}
  /\ Cardinality(store) < MaxStore
  /\ \E o \in ObjectPool :
       /\ \A p \in store :
            ~(p.resource = o.resource /\ p.namespace = o.namespace /\ p.name = o.name)
       /\ store' = store \cup {o}
  /\ stable' = (pc = "idle")
  /\ UNCHANGED <<pc, args, replies, ret>>

\* another process deletes an object
DeleteObject ==
  /\ pc \in {"idle", "running"}
  /\ \E o \in store : store' = store \ {o}
  /\ stable' = (pc = "idle")
  /\ UNCHANGED <<pc, args, replies, ret>>

\* the operation of the arguments a, run on the replies rs of the store
Run(a, rs) ==
  IF a.op = "get"
  THEN GetDefinition(Env(rs, TRUE), a.ctx, 0, RevisionResource, a.name)
  ELSE IF a.op = "attempt"
  THEN GetDefinitionFromNamespace(Env(rs, TRUE), 0, RevisionResource, a.name,
                                  a.namespace)
  ELSE IF a.op = "latest"
  THEN GetLatestDefinitionRevisionName(Env(rs, TRUE), a.ctx, 0, a.base, a.name, a.kind)
  ELSE GetCapabilityDefinition(Env(rs, a.isClient), a.ctx, a.definition, a.ref,
                               a.annotations)

\* the operation goes as far as the replies rs take it, r being its run on
\* them: it waits for the store when it has made a call beyond them, and has
\* returned (or panicked) otherwise
Advance(rs, r) ==
  /\ replies' = rs
  /\ IF Len(r.calls) > Len(rs)
     THEN pc' = "running" /\ ret' = NoRet
     ELSE pc' = "done" /\ ret' = r

\* a caller starts the operation of the arguments a
Begin(a) ==
  /\ args' = a
  /\ stable' = TRUE
  /\ Advance(<<>>, Run(a, <<>>))
  /\ UNCHANGED store

CallGetDefinition ==
  /\ pc = "idle"
  /\ \E ctx \in Contexts, name \in {AppV1_2_3, AppV1_2_5}, namespaced \in BOOLEAN :
       Begin([op |-> "get", ctx |-> ctx, name |-> name, namespaced |-> namespaced])

CallGetDefinitionFromNamespace ==
  /\ pc = "idle"
  /\ \E ns \in ListedNamespaces, name \in {AppV1_2_3, AppV1_2_5}, namespaced \in BOOLEAN :
       Begin([op |-> "attempt", namespace |-> ns, name |-> name,
              namespaced |-> namespaced])

CallGetLatestDefinitionRevisionName ==
  /\ pc = "idle"
  /\ \E ctx \in Contexts, revisionName \in {AppV1_2, AppV1_2_3},
        kind \in {ComponentType, TraitType, ""} :
       Begin([op |-> "latest", ctx |-> ctx, base |-> App, name |-> revisionName,
              kind |-> kind, namespaced |-> TRUE])

CallGetCapabilityDefinition ==
  /\ pc = "idle"
  /\ \E a \in ResolveInputs :
       Begin([op |-> "resolve", ctx |-> a.ctx, ref |-> a.ref,
              definition |-> a.definition,
              kind |-> getDefinitionType(a.definition).type,
              annotations |-> a.annotations, namespaced |-> a.namespaced,
              isClient |-> a.isClient])

\* the reply of the store, holding st, to the request req, the k-th store
\* call of the operation
Reply(req, st, listed, namespaced, fail, k) ==
  IF req.api = "get"
  THEN StoreGet(st, namespaced, fail, k, req.resource, req.namespace, req.name)
  ELSE StoreList(listed, fail, k, DefinitionKindToNameLabel(req.kind), req.name)

\* the orders in which the store may go through the objects a request lists
ListedOrders(req, st) ==
  IF req.api = "list" THEN Orders(InNamespace(st, req.namespace)) ELSE {<<>>}

\* the store answers the call the operation is waiting on, from the content
\* it has now: with an error of its own or not, a list in any order
StoreCall ==
  /\ pc = "running"
  /\ \E req \in {Run(args, replies).calls[Len(replies) + 1]} :
       \E fail \in BOOLEAN, listed \in ListedOrders(req, store) :
         \E rs \in {Append(replies, Reply(req, store, listed, args.namespaced, fail,
                                          Len(replies) + 1))} :
           Advance(rs, Run(args, rs))
  /\ UNCHANGED <<store, args, stable>>

\* the caller has taken the result
Finish ==
  /\ pc = "done"
  /\ pc' = "idle"
  /\ args' = NoArgs
  /\ replies' = <<>>
  /\ stable' = TRUE
  /\ ret' = NoRet
  /\ UNCHANGED store

Next ==
  \/ CreateObject
  \/ DeleteObject
  \/ CallGetDefinition
  \/ CallGetDefinitionFromNamespace
  \/ CallGetLatestDefinitionRevisionName
  \/ CallGetCapabilityDefinition
  \/ StoreCall
  \/ Finish

Spec == Init /\ [][Next]_vars

(***************************************************************************)
(* Properties of the version selector.                                     *)
(***************************************************************************)
Selected == pc = "done" /\ args.op = "select"

\* the candidate passes the kind filter of the selector
OfKind(c, kind) == kind = "" \/ c.defType = kind

\* line 352: the text of a revision name between the first baseName + "-"
\* and the next one, strings.Split(name, baseName + "-")[1]; a name without
\* baseName + "-" has none (the index is out of range there)
SuffixAfter(name, base) ==
  LET parts == Split(name, base \o <<"-">>)
  IN  IF Len(parts) < 2 THEN <<>> ELSE parts[2]

\* lines 344-351: a candidate of the kind whose name extends the token
PrefixMatch(c, exact, base, kind) ==
  /\ OfKind(c, kind)
  /\ HasPrefix(c.name, exact \o <<".">>)

Parseable(c, exact, base, kind) ==
  PrefixMatch(c, exact, base, kind) /\ NewVersion(SuffixAfter(c.name, base)).ok

Malformed(c, exact, base, kind) ==
  PrefixMatch(c, exact, base, kind) /\ ~NewVersion(SuffixAfter(c.name, base)).ok

Items == {args.items[i] : i \in 1..Len(args.items)}

Reorderings(l) ==
  {[i \in 1..Len(l) |-> l[p[i]]] :
     p \in {q \in [1..Len(l) -> 1..Len(l)] : \A i, j \in 1..Len(l) : i # j => q[i] # q[j]}}

\* C4: when no candidate is the exact token and a candidate of the matching
\* kind extends the token with a suffix that is no semantic version, the
\* selector returns the InvalidVersion error (empty name, non-nil error): it
\* neither skips the candidate nor panics.
C4_MalformedReturnsInvalidVersion ==
  (/\ Selected
   /\ \A c \in Items : c.name # args.exact
   /\ \E c \in Items : Malformed(c, args.exact, args.base, args.kind))
  => (ret.status = "return" /\ ret.name = <<>> /\ ret.err = "InvalidVersion")

\* C5: the selector is order-independent: every permutation of a candidate
\* list with pairwise distinct names yields the same (name, error) result.
C5_OrderIndependent ==
  Selected =>
    \A l \in Reorderings(args.items) :
      getMatchingDefinitionRevision(args.exact, args.base, l, args.kind) = ret

\* C6: a list that holds a revision of the matching kind named exactly as the
\* token, and prefix-matching revisions with higher semantic versions, makes
\* the selector return the token, wherever the exact match stands.
C6_ExactMatchWins ==
  (/\ Selected
   /\ \E c \in Items : OfKind(c, args.kind) /\ c.name = args.exact
   /\ HasPrefix(args.exact, args.base \o <<"-">>)
   /\ NewVersion(SuffixAfter(args.exact, args.base)).ok
   /\ \E c \in Items :
        /\ Parseable(c, args.exact, args.base, args.kind)
        /\ Compare(NewVersion(SuffixAfter(c.name, args.base)),
                   NewVersion(SuffixAfter(args.exact, args.base))) > 0)
  => ret = Return(args.exact, "nil")

\* C7: with no candidate named as the token and at least one candidate of the
\* matching kind that extends the token with a parseable version, the
\* selector returns the candidate of the greatest semantic version.
C7_ReturnsGreatestVersion ==
  (/\ Selected
   /\ \A c \in Items : c.name # args.exact
   /\ \E c \in Items : Parseable(c, args.exact, args.base, args.kind))
  => /\ ret.status = "return"
     /\ ret.err = "nil"
     /\ \E c \in Items :
          /\ Parseable(c, args.exact, args.base, args.kind)
          /\ c.name = ret.name
          /\ \A d \in Items :
               Parseable(d, args.exact, args.base, args.kind) =>
                 Compare(NewVersion(SuffixAfter(d.name, args.base)),
                         NewVersion(SuffixAfter(c.name, args.base))) <= 0

(***************************************************************************)
(* The conversion of references: inputs and properties.                    *)
(***************************************************************************)
RECURSIVE Repeat(_, _)
Repeat(c, n) == IF n = 0 THEN <<>> ELSE <<c>> \o Repeat(c, n - 1)

\* base names: short ones, names with "-" and ".", one that looks like a
\* revision name, and names around the length at which name-vX.Y.Z passes 63
BaseNames ==
  {App, A, <<"a", "-", "b">>, <<"a", ".", "b">>, App \o <<"-", "v", "2">>,
   Repeat("a", qualifiedNameMaxLength - 7), Repeat("a", qualifiedNameMaxLength - 6),
   Repeat("a", qualifiedNameMaxLength)}

VersionNumbers == {0, 1, 2, 10}

XYZ(x, y, z) == Itoa(x) \o <<".">> \o Itoa(y) \o <<".">> \o Itoa(z)

PinnedReferences ==
  {Reference(n, XYZ(x, y, z)) : n \in BaseNames, x \in VersionNumbers,
                                y \in VersionNumbers, z \in VersionNumbers}

\* references without a version, with an empty left-hand side, with characters
\* no name may hold
OtherReferences ==
  {App, A, <<"@", "v", "1", ".", "0">>, <<"a", "_", "b">>, <<"a", "/", "b">>,
   <<"A", "/", "b">>, <<"a", "@", "1">>, <<"-", "a">>, <<>>,
   <<"a", "@", "v", "1", "@", "v", "2">>, <<"a", "_", "@", "v", "1">>}

ConvertArgs == [op : {"convert"}, raw : PinnedReferences \cup OtherReferences]

InitConvert ==
  /\ store = {}
  /\ pc = "call"
  /\ args \in ConvertArgs
  /\ replies = <<>>
  /\ stable = TRUE
  /\ ret = NoRet

Convert ==
  /\ pc = "call"
  /\ args.op = "convert"
  /\ ret' = ConvertDefinitionRevName(args.raw)
  /\ pc' = "done"
  /\ UNCHANGED <<store, args, replies, stable>>

NextConvert == Convert

SpecConvert == InitConvert /\ [][NextConvert]_vars

Converted == pc = "done" /\ args.op = "convert"

\* a valid resource name: a DNS-1123 subdomain
ValidBaseNames == {n \in BaseNames : IsDNS1123Subdomain(n)}

RoundTrips(n, version) ==
  /\ ret = Return(n \o <<"-", "v">> \o version, "nil")
  /\ RevisionNameParts(ret.name) = [ok |-> TRUE, name |-> n, version |-> version]

\* C10 as stated: every reference name@vX.Y.Z with a valid resource name is
\* converted to name-vX.Y.Z with no error, and the reverse mapping recovers
\* name and X.Y.Z.
C10_ConvertRoundTripAnyLength ==
  Converted =>
    \A n \in ValidBaseNames : \A x, y, z \in VersionNumbers :
      args.raw = Reference(n, XYZ(x, y, z)) => RoundTrips(n, XYZ(x, y, z))

\* C10: every reference name@vX.Y.Z with a valid resource name whose revision
\* name name-vX.Y.Z is at most 63 characters long is converted to name-vX.Y.Z
\* with no error, and the reverse mapping recovers name and X.Y.Z; a longer
\* revision name is returned with the invalid-name error.
C10_ConvertRoundTrip ==
  Converted =>
    \A n \in ValidBaseNames : \A x, y, z \in VersionNumbers :
      args.raw = Reference(n, XYZ(x, y, z)) =>
        IF Len(n) + 2 + Len(XYZ(x, y, z)) <= qualifiedNameMaxLength
        THEN RoundTrips(n, XYZ(x, y, z))
        ELSE ret = Return(n \o <<"-", "v">> \o XYZ(x, y, z), "InvalidName")

\* a reference to a name with "-" in it has been converted and mapped back
C10_Witness ==
  /\ Converted
  /\ args.raw = Reference(App \o <<"-", "v", "2">>, XYZ(1, 10, 0))
  /\ RoundTrips(App \o <<"-", "v", "2">>, XYZ(1, 10, 0))

(***************************************************************************)
(* Properties of the fetch, the latest-revision lookup and the resolver.   *)
(*                                                                         *)
(* A property that speaks of the store content is stated of the operations *)
(* during which no other process changed the store (stable); a property    *)
(* of the calls and their results is stated of the replies the operation   *)
(* received, whatever happened to the store between them.                  *)
(***************************************************************************)
Got == pc = "done" /\ args.op = "get"
Searched == pc = "done" /\ args.op = "latest"
Resolving == pc = "done" /\ args.op = "resolve"

AppNamespace == GetDefinitionNamespaceWithCtx(args.ctx)
XNamespace == GetXDefinitionNamespaceWithCtx(args.ctx)

\* the first store call of the operation that failed with an error of the
\* store's own, 0 when none did
FailAt ==
  LET failed == {k \in 1..Len(replies) : replies[k].err.kind = "Other"}
  IN  IF failed = {} THEN 0 ELSE CHOOSE k \in failed : \A j \in failed : k <= j

\* the store held the same content at every call of the operation, and no
\* call failed with an error of the store's own
Quiet == stable /\ FailAt = 0

\* the revisions stored under a name in a namespace (none for cluster scope)
Stored(ns, name) ==
  {o \in store : o.resource = RevisionResource /\ o.namespace = ns /\ o.name = name}

\* the first position of nss whose namespace stores the name, 0 when none does
FirstHolding(nss, name) ==
  LET holding == {i \in 1..Len(nss) : Stored(nss[i], name) # {}}
  IN  IF holding = {} THEN 0 ELSE CHOOSE i \in holding : \A j \in holding : i <= j

\* every attempt of the fetch ends in not-found: every get of the operation
\* was answered with not-found, or, for a retry without a namespace, with
\* the empty-namespace rejection
EveryAttemptNotFound ==
  \A k \in 1..Len(replies) : replies[k].err.kind \in {"NotFound", "EmptyNamespace"}

\* C1 as stated: when every attempt of GetDefinition ends in not-found, the
\* error returned is the one of the first store call, the lookup in the
\* application namespace.
C1_FirstErrorReturned ==
  (Got /\ EveryAttemptNotFound) => (IsNotFound(ret.err) /\ ret.err.call = 1)

\* C1: when every attempt of GetDefinition ends in not-found, the error
\* returned is the not-found error of the last attempt, the one in the system
\* namespace: the error of its retry without a namespace, or the error of its
\* namespaced lookup when the retry is rejected with the empty-namespace
\* message; it is never the error of the application-namespace lookup.
C1_LastErrorReturned ==
  (Got /\ EveryAttemptNotFound) =>
    /\ IsNotFound(ret.err)
    /\ Len(ret.calls) = 5
    /\ Len(replies) = 5
    /\ ret.calls[1] = GetCall(RevisionResource, AppNamespace, args.name)
    /\ ret.calls[4] = GetCall(RevisionResource, SystemDefinitionNamespace, args.name)
    /\ ret.calls[5] = GetCall(RevisionResource, NoNamespace, args.name)
    /\ ret.err = IF replies[5].err.kind = "EmptyNamespace"
                 THEN replies[4].err ELSE replies[5].err
    /\ ret.err.call = IF args.namespaced THEN 4 ELSE 5

\* a fetch in a non-empty store whose every attempt ended in not-found and
\* that returned the error of the retry of the system-namespace attempt
C1_Witness ==
  /\ Got
  /\ EveryAttemptNotFound
  /\ store # {}
  /\ ~args.namespaced
  /\ ret.err = Err("NotFound", 5)

\* C2 as stated: when get calls fail only with not-found, GetDefinition
\* returns the object stored under the name in the first of the application,
\* x-definition and system namespaces that holds it.
C2_FirstNamespaceWins ==
  (/\ Got
   /\ Quiet
   /\ ~args.namespaced
   /\ FirstHolding(<<AppNamespace, XNamespace, SystemDefinitionNamespace>>, args.name) # 0)
  => LET nss == <<AppNamespace, XNamespace, SystemDefinitionNamespace>>
     IN  /\ ret.err = NoErr
         /\ ret.obj \in Stored(nss[FirstHolding(nss, args.name)], args.name)

\* C2: when get calls fail only with not-found (or, for the retry without a
\* namespace, with the empty-namespace rejection) and the store does not
\* change during the call, GetDefinition returns the object stored under the
\* name in the first of: the application namespace, the x-definition
\* namespace, the cluster scope (no namespace, where the store serves such
\* lookups), the system namespace.
C2_FirstScopeWins ==
  (Got /\ Quiet) =>
    LET nss == IF args.namespaced
               THEN <<AppNamespace, XNamespace, SystemDefinitionNamespace>>
               ELSE <<AppNamespace, XNamespace, NoNamespace, SystemDefinitionNamespace>>
    IN  FirstHolding(nss, args.name) # 0 =>
          /\ ret.err = NoErr
          /\ ret.obj \in Stored(nss[FirstHolding(nss, args.name)], args.name)

\* a fetch with a custom x-definition namespace that returned the object
\* held by the system namespace only, after the lookups before it
C2_Witness ==
  /\ Got
  /\ Quiet
  /\ ~args.namespaced
  /\ XNamespace = Addons
  /\ Stored(AppNamespace, args.name) = {}
  /\ Stored(Addons, args.name) = {}
  /\ ret.err = NoErr
  /\ ret.obj.namespace = SystemDefinitionNamespace
  /\ Len(ret.calls) = 4

AutoUpdate ==
  /\ AnnotationAutoUpdate \in DOMAIN args.annotations
  /\ args.annotations[AnnotationAutoUpdate] = "true"

\* the reference is name@vX.Y.Z with X.Y.Z a semantic version
FullPin(ref) ==
  /\ Len(Split(ref, <<"@", "v">>)) = 2
  /\ Cardinality({i \in 1..Len(ref) : ref[i] = "."}) = 2
  /\ NewVersion(Split(ref, <<"@", "v">>)[2]).ok

\* name-vX.Y of the reference name@vX.Y.Z
MinorToken(ref) ==
  LET dots == {i \in 1..Len(ref) : ref[i] = "."}
      last == CHOOSE i \in dots : \A j \in dots : j <= i
  IN  Split(ref, <<"@", "v">>)[1] \o <<"-", "v">>
        \o Split(Take(ref, last - 1), <<"@", "v">>)[2]

\* the revisions of the base name and kind stored in a namespace
Revisions(ns, base, kind) ==
  {o \in store : /\ o.resource = RevisionResource
                 /\ o.namespace = ns
                 /\ o.defName = base
                 /\ o.defType = kind}

\* lines 352-353: the version the selector parses from a revision name
VersionOf(name, base) == NewVersion(SuffixAfter(name, base))

\* C3: with AutoUpdate = "true", resolving name@vX.Y.Z returns the
\* revision of the highest semantic version among the stored revisions of the
\* name and kind under the prefix name-vX.Y, whatever the pinned patch Z.
C3_PinnedPatchIgnored ==
  (/\ Resolving
   /\ FullPin(args.ref)
   /\ AutoUpdate
   /\ args.isClient
   /\ Quiet
   /\ \E o \in Revisions(AppNamespace, Split(args.ref, <<"@">>)[1], args.kind) :
        HasPrefix(o.name, MinorToken(args.ref) \o <<".">>)
   /\ \A o \in Revisions(AppNamespace, Split(args.ref, <<"@">>)[1], args.kind) :
        /\ HasPrefix(o.name, MinorToken(args.ref) \o <<".">>)
        /\ VersionOf(o.name, Split(args.ref, <<"@">>)[1]).ok)
  => /\ ret.status = "return"
     /\ ret.err = NoErr
     /\ ~ret.resolved.isLatestRevision
     /\ \A o \in Revisions(AppNamespace, Split(args.ref, <<"@">>)[1], args.kind) :
          Compare(VersionOf(ret.resolved.defRev.name, Split(args.ref, <<"@">>)[1]),
                  VersionOf(o.name, Split(args.ref, <<"@">>)[1])) >= 0

\* the k-th store call of the operation was answered without an error
Answered(k) == k <= Len(replies) /\ replies[k].err = NoErr

\* the revisions the k-th store call of the lookup, a list, was answered
\* with, in the order of the store
Listed(k) == replies[k].items

\* the result of the selector on the revisions of the k-th store call
Selection(k) ==
  getMatchingDefinitionRevision(args.name, args.base, Listed(k), args.kind)

\* the namespace of the k-th store call yields a match: the list is answered
\* and the selector returns a non-empty name
YieldsMatch(k) ==
  /\ Answered(k)
  /\ Selection(k).status = "return"
  /\ Selection(k).err = "nil"
  /\ Selection(k).name # <<>>

\* the namespace of the k-th store call yields none: the list is answered
\* and the selector returns, without a name
YieldsNone(k) ==
  /\ Answered(k)
  /\ Selection(k).status = "return"
  /\ ~(Selection(k).err = "nil" /\ Selection(k).name # <<>>)

\* C8: GetLatestDefinitionRevisionName lists the application namespace and
\* then the system namespace and returns the first non-empty selector result:
\* a match of the application namespace is returned after one list call,
\* whatever the system namespace holds; the match of the system namespace is
\* returned only when the application namespace yields none; and the call
\* fails with the error naming the base name and kind exactly when both
\* namespaces were listed and neither yields a match.
C8_ApplicationNamespaceFirst ==
  Searched =>
    /\ Len(replies) >= 1
    /\ ret.calls[1] = ListCall(AppNamespace, args.kind, args.base)
    /\ Len(ret.calls) = 2 =>
         ret.calls[2] = ListCall(SystemDefinitionNamespace, args.kind, args.base)
    /\ YieldsMatch(1) =>
         ret = Latest("return", Selection(1).name, NoErr,
                      <<ListCall(AppNamespace, args.kind, args.base)>>)
    /\ YieldsNone(1) => Len(ret.calls) = 2
    /\ (YieldsNone(1) /\ YieldsMatch(2)) =>
         ret = Latest("return", Selection(2).name, NoErr,
                      <<ListCall(AppNamespace, args.kind, args.base),
                        ListCall(SystemDefinitionNamespace, args.kind, args.base)>>)
    /\ (ret.status = "return" /\ ret.err.kind = "nil" /\ Len(ret.calls) = 2) =>
         (YieldsNone(1) /\ YieldsMatch(2) /\ ret.name = Selection(2).name)
    /\ (ret.status = "return" /\ ret.err = FindRevisionError(args.base, args.kind))
         <=> (YieldsNone(1) /\ YieldsNone(2))
    /\ ret.err.kind = "FindRevision" => ret.err = FindRevisionError(args.base, args.kind)

\* a lookup that returned the match of the application namespace while the
\* system namespace held, all along, a revision of a higher version
C8_Witness ==
  /\ Searched
  /\ AppNamespace = Prod
  /\ Quiet
  /\ YieldsMatch(1)
  /\ ret.name = Selection(1).name
  /\ ret.err = NoErr
  /\ Len(ret.calls) = 1
  /\ \E o \in Revisions(SystemDefinitionNamespace, args.base, args.kind) :
       /\ HasPrefix(o.name, args.name \o <<".">>)
       /\ VersionOf(o.name, args.base).ok
       /\ Compare(VersionOf(o.name, args.base), VersionOf(ret.name, args.base)) > 0

\* C9: for a reference without '@' the resolver returns UseLive (the latest
\* flag set, no revision, no error) whatever the annotations and the store,
\* and no list call is issued at any point of the resolution, the fetch of
\* the live definition included.
C9_NoAtUsesLive ==
  (Resolving /\ ~Contains(args.ref, <<"@">>) /\ getDefinitionType(args.definition).err = "nil") =>
    /\ ret.status = "return"
    /\ ret.resolved = Resolved("return", TRUE, NoObject, NoErr, <<>>)
    /\ \A i \in 1..Len(ret.calls) : ret.calls[i].api = "get"

\* a resolution of a reference without '@' under AutoUpdate = "true" in a
\* store holding revisions, which went on to fetch the live definition
C9_Witness ==
  /\ Resolving
  /\ args.ref = RefApp
  /\ AutoUpdate
  /\ \E o \in store : o.resource = RevisionResource
  /\ ret.resolved.isLatestRevision
  /\ Len(ret.calls) > 0

(***************************************************************************)
(* Properties of the errors of the store and of the namespaced attempt.    *)
(***************************************************************************)
Attempted == pc = "done" /\ args.op = "attempt"

\* C11: when a get or list call of GetDefinition, of
\* GetLatestDefinitionRevisionName or of the resolver fails with an error that
\* is neither not-found nor the empty-namespace rejection, that call is the
\* last store call of the operation and its error is returned unchanged.
C11_StoreErrorPassedThrough ==
  (/\ pc = "done"
   /\ args.op \in {"get", "latest", "resolve"}
   /\ FailAt > 0)
  => /\ ret.err = replies[FailAt].err
     /\ ret.err = Err("Other", FailAt)
     /\ Len(ret.calls) = FailAt
     /\ Len(replies) = FailAt
     /\ args.op = "latest" => (ret.status = "return" /\ ret.name = <<>>)
     /\ args.op = "resolve" =>
          /\ ret.status = "return"
          /\ ret.def = NoObject
          /\ ~ret.resolved.isLatestRevision =>
               (ret.resolved.err = ret.err /\ ret.resolved.calls = ret.calls)

\* a fetch whose retry without a namespace, in the attempt of the x-definition
\* namespace, failed with an error of the store: the system namespace, which
\* held the name all along, was not read
C11_Witness ==
  /\ Got
  /\ FailAt = 3
  /\ stable
  /\ Stored(SystemDefinitionNamespace, args.name) # {}
  /\ XNamespace = Addons
  /\ ret.err = Err("Other", 3)
  /\ ret.calls[3] = GetCall(RevisionResource, NoNamespace, args.name)
  /\ Len(ret.calls) = 3

\* C14: in GetDefinitionFromNamespace a namespaced get that reports not-found
\* is followed by exactly one get without a namespace; when that retry is
\* rejected with the empty-namespace message the attempt returns the error of
\* the namespaced get, and otherwise the result of the retry (the object it
\* found, its not-found, or its other error); a namespaced get that succeeds
\* or fails otherwise is the only store call of the attempt.
C14_OneRetryWithoutNamespace ==
  Attempted =>
    LET first == GetCall(RevisionResource, args.namespace, args.name)
        retry == GetCall(RevisionResource, NoNamespace, args.name)
    IN  /\ Len(replies) >= 1
        /\ ~IsNotFound(replies[1].err) =>
             ret = Fetched(replies[1].err, replies[1].obj, <<first>>)
        /\ IsNotFound(replies[1].err) =>
             /\ Len(replies) = 2
             /\ ret.calls = <<first, retry>>
             /\ IF replies[2].err.kind = "EmptyNamespace"
                THEN ret.err = replies[1].err /\ ret.obj = NoObject
                ELSE ret.err = replies[2].err /\ ret.obj = replies[2].obj
        /\ (stable /\ FailAt = 0 /\ Stored(args.namespace, args.name) # {}) =>
             /\ ret.err = NoErr
             /\ ret.obj \in Stored(args.namespace, args.name)
             /\ ret.calls = <<first>>
        /\ (stable /\ FailAt = 0 /\ Stored(args.namespace, args.name) = {}) =>
             /\ ret.calls = <<first, retry>>
             /\ IF args.namespaced
                THEN ret.err = Err("NotFound", 1) /\ ret.obj = NoObject
                ELSE IF Stored(NoNamespace, args.name) # {}
                THEN ret.err = NoErr /\ ret.obj \in Stored(NoNamespace, args.name)
                ELSE ret.err = Err("NotFound", 2) /\ ret.obj = NoObject

\* an attempt whose namespaced get reported not-found and whose retry was
\* rejected with the empty-namespace message, in a store that holds objects
C14_Witness ==
  /\ Attempted
  /\ store # {}
  /\ args.namespaced
  /\ FailAt = 0
  /\ Len(ret.calls) = 2
  /\ replies[2].err.kind = "EmptyNamespace"
  /\ ret.err = Err("NotFound", 1)

(***************************************************************************)
(* Properties of the kind and the name of the revision resolved.           *)
(***************************************************************************)
\* the resolver has returned a revision (UseRevision)
UseRevision ==
  /\ Resolving
  /\ ret.status = "return"
  /\ ret.err = NoErr
  /\ ~ret.resolved.isLatestRevision

\* C12: a revision the resolver returns has the kind requested for the
\* reference, on the pinned path and on the auto-update path, whatever
\* revision of another kind an earlier-searched namespace stores under the
\* same name; and a name the latest-revision lookup selects for a kind is the
\* name of a revision of that kind that a list call of the lookup returned.
C12_ReturnedKindMatches ==
  /\ UseRevision => ret.resolved.defRev.defType = args.kind
  /\ (Searched /\ ret.status = "return" /\ ret.err = NoErr
        /\ args.kind \in DefinitionTypes) =>
       \E k \in 1..Len(replies) :
         \E i \in 1..Len(Listed(k)) : /\ Listed(k)[i].resource = RevisionResource
                                      /\ Listed(k)[i].name = ret.name
                                      /\ Listed(k)[i].defType = args.kind

\* the selector meets, in the revisions of the k-th store call, a name that
\* extends the token with a suffix that is no semantic version, before any
\* revision named exactly as the token
MeetsMalformed(k) ==
  /\ Answered(k)
  /\ \E i \in 1..Len(Listed(k)) :
       /\ Malformed(Listed(k)[i], args.name, args.base, args.kind)
       /\ \A j \in 1..(i - 1) :
            ~(OfKind(Listed(k)[j], args.kind) /\ Listed(k)[j].name = args.name)

\* C13: when the selector fails on a malformed version while
\* GetLatestDefinitionRevisionName processes a namespace, the lookup returns
\* the InvalidVersion error at once: after the list call of that namespace,
\* with no name, neither a match of a later namespace nor the error naming
\* the base name and kind.
C13_InvalidVersionReturnedAtOnce ==
  (/\ Searched
   /\ \/ MeetsMalformed(1)
      \/ YieldsNone(1) /\ MeetsMalformed(2))
  => /\ ret.status = "return"
     /\ ret.name = <<>>
     /\ ret.err.kind = "InvalidVersion"
     /\ Len(ret.calls) = IF MeetsMalformed(1) THEN 1 ELSE 2

\* C15: a non-empty name returned by the selector is the full name of a
\* candidate of the matching kind in the list passed to it, also when
\* baseName + "-" occurs more than once in the name of a candidate.
C15_ReturnedNameIsCandidate ==
  (Selected /\ ret.status = "return" /\ ret.name # <<>>) =>
    \E c \in Items : OfKind(c, args.kind) /\ c.name = ret.name

\* C16: for a fully pinned reference name@vX.Y.Z whose exact revision, of the
\* kind requested, is stored in the application, x-definition or system
\* namespace (so that the resolution without the annotation succeeds), the
\* resolution with AutoUpdate = "true" on the same store and context returns
\* a revision too.
C16_AutoUpdateKeepsResolving ==
  (/\ Resolving
   /\ FullPin(args.ref)
   /\ AutoUpdate
   /\ args.isClient
   /\ Quiet
   /\ ConvertDefinitionRevName(args.ref).err = "nil"
   /\ \E ns \in {AppNamespace, XNamespace, SystemDefinitionNamespace} :
        \E o \in Stored(ns, ConvertDefinitionRevName(args.ref).name) :
          o.defType = args.kind)
  => (UseRevision /\ ret.resolved.defRev # NoObject)

====
